---- MODULE Spec2Model ----
(***************************************************************************)
(* Locomotion controller of bevy_game: src/systems/movement_system.rs, the  *)
(* FixedUpdate schedule of src/systems/player_system.rs and the HUD        *)
(* systems of src/ui/mod.rs.                                               *)
(*                                                                         *)
(* Numbers.  The program computes in f32.  Here every f32 is an integer in *)
(* fixed point, every operation rounded to nearest as IEEE arithmetic is:  *)
(*   - scalars (speeds, curve values, factors) in thousandths (One = 1.0); *)
(*   - times in milliseconds (One = 1 s);                                  *)
(*   - Vec2 components of directions in 1/16384 (VOne = 1.0), a binary     *)
(*     scale fine enough to tell 0.7071 (a normalized diagonal) from the   *)
(*     0.707 thresholds, as f32 does.                                      *)
(***************************************************************************)
EXTENDS Integers, Sequences, FiniteSets, TLC

VARIABLES
    st,         \* the MovementState resource
    moved,      \* what apply_player_motion added to Transform.translation
    hud,        \* what the HUD systems last drew: the text and the heartbeat
    clock,      \* the run's inputs: the dts, the key sets, the curve-time caps
    pc,         \* the system of the FixedUpdate chain that runs next
    lag,        \* Transform.translation minus GlobalTransform.translation
                \* of the player, along x and z
    frame_ticks,\* the runs of FixedUpdate in the frame so far
    \* Observers of the tick that just ran (reset when the chain ends):
    h_keys,     \* the keys held during it
    h_dt,       \* its elapsed time
    h_case,     \* what the state before it and its input were (see CaseTags)
    h_read,     \* the is_falling values its systems have read, in order
    \* Observers of the run so far:
    h_fall_n,   \* the number of consecutive falling ticks
    h_fall_dt,  \* their common dt (-1: they differ)
    h_turn,     \* the phase of a hard turn whose input stays held on the ground
    h_lock_dt,  \* the elapsed time of the locked ticks of that hard turn
    h_cancel    \* a lock was cancelled by a release and no direction held since

vars == <<st, moved, hud, clock, pc, lag, frame_ticks, h_keys, h_dt, h_case,
          h_read, h_fall_n, h_fall_dt, h_turn, h_lock_dt, h_cancel>>

-----------------------------------------------------------------------------
(* Bounds of the model *)

\* longest curve time (ms) a grounded tick may reach
MaxT == 100
\* longest run of consecutive falling ticks
MaxFallTicks == 7
\* most keys held at once
MaxKeysHeld == 2

\* longest curve time (ms) of a run in fine time steps
MaxFineT == 2
\* longest curve time (ms) of a run that draws the HUD
MaxFrameT == 50
\* longest deceleration curve time (ms) of a run that coasts to a stop
MaxCoastT == 2000
\* longest curve time (ms) of an acceleration that runs up to max_speed
MaxAccelT == 1300
\* most runs of FixedUpdate in one frame of a run that draws the HUD
MaxTicksPerFrame == 2

\* per-tick elapsed times (ms) the scheduler may supply
Dts == {0, 50, 100}
\* the same in fine steps, where speeds below stop_epsilon occur
FineDts == {0, 1}
\* a fixed positive step, as Time<Fixed> supplies
FixedDts == {50}
\* a coarser fixed step, which reaches max_speed in few ticks
CoarseDts == {100}

-----------------------------------------------------------------------------
(* Fixed-point arithmetic standing for f32 *)

One == 1000
VOne == 16384

Abs(a) == IF a < 0 THEN -a ELSE a

Max(a, b) == IF a >= b THEN a ELSE b

\* a / b rounded to nearest, symmetric in sign (b > 0)
RDiv(a, b) == IF a >= 0 THEN (2 * a + b) \div (2 * b)
                        ELSE -((2 * (-a) + b) \div (2 * b))

\* product of two scalars
Mul(a, b) == RDiv(a * b, One)

RECURSIVE SqrtSearch(_, _, _)
SqrtSearch(n, lo, hi) ==
    IF hi - lo <= 1 THEN lo
    ELSE LET mid == (lo + hi) \div 2
         IN  IF mid * mid <= n THEN SqrtSearch(n, mid, hi)
                               ELSE SqrtSearch(n, lo, mid)

\* square root of a Vec2-scale number, rounded to nearest
VSqrt(a) ==
    LET n == a * VOne
        s == SqrtSearch(n, 0, 32768)
    IN  IF n - s * s > s THEN s + 1 ELSE s

-----------------------------------------------------------------------------
(* Vec2 *)

ZERO == <<0, 0>>

Y == <<0, VOne>>

\* f32 keeps each product to a finer step than their sum (the products are the
\* smaller numbers), so the rounding that shows is the sum's: round once
VDot(a, b) == RDiv(a[1] * b[1] + a[2] * b[2], VOne)

length_squared(v) == VDot(v, v)

\* 1 / |v|; 0 stands for the non-finite reciprocal of a zero length
length_recip(v) ==
    LET len == VSqrt(length_squared(v))
    IN  IF len = 0 THEN 0 ELSE RDiv(VOne * VOne, len)

normalize(v) ==
    LET rcp == length_recip(v)
    IN  <<RDiv(v[1] * rcp, VOne), RDiv(v[2] * rcp, VOne)>>

normalize_or_zero(v) ==
    LET rcp == length_recip(v)
    IN  IF rcp > 0 THEN <<RDiv(v[1] * rcp, VOne), RDiv(v[2] * rcp, VOne)>>
                   ELSE ZERO

\* Vec2::length of a velocity, whose components are scalars
length(v) ==
    LET n == v[1] * v[1] + v[2] * v[2]
        s == SqrtSearch(n, 0, 32768)
    IN  IF n - s * s > s THEN s + 1 ELSE s

\* Vec2 * f32 with the Vec2 a direction and the scalar a speed
VScale(v, s) == <<RDiv(v[1] * s, VOne), RDiv(v[2] * s, VOne)>>

-----------------------------------------------------------------------------
(* Tuning constants: MovementState::default *)

max_speed == 6000
accel_k == 6000
decel_a == 6000
\* -0.707 and 0.707 at the Vec2 scale, the scale of the dot they are compared to
hard_turn_dot == -11583
soft_turn_dot == 11583
soft_turn_speed_factor == 500
stop_epsilon == 20
hard_turn_hold_time == 100
fall_decel == 20000
gravity == -30000

\* the literal -3.0 of `max_fall_speed`
FallSpeedFactor == -3000

-----------------------------------------------------------------------------
(* Curve functions *)

\* sum of the series of e^x from the term `term` = x^(n-1)/(n-1)! on, x >= 0
RECURSIVE ExpSeries(_, _, _)
ExpSeries(x, n, term) ==
    IF term = 0 THEN 0
    ELSE term + ExpSeries(x, n + 1, RDiv(term * x, One * n))

\* f32::exp; below -6 the series would leave the integers: exp(x) = exp(x/2)^2
RECURSIVE exp(_)
exp(x) == IF x >= 0 THEN ExpSeries(x, 1, One)
          ELSE IF x >= -6 * One THEN RDiv(One * One, ExpSeries(-x, 1, One))
          ELSE LET half == exp(-((-x) \div 2)) IN Mul(half, half)

clamp(v, lo, hi) == IF v < lo THEN lo ELSE IF v > hi THEN hi ELSE v

accel_exp(t, k) == One - exp(-Mul(k, Max(t, 0)))

inv_square(t, a) ==
    LET d == One + Mul(a, Max(t, 0))
    IN  RDiv(One * One, Mul(d, d))

\* accel_exp(t, accel_k) of every curve time a tick can reach
AccelTable == [t \in 0..(Max(MaxT, MaxAccelT) + 100) |-> accel_exp(t, accel_k)]

\* restart_curve with start_speed not taken from the speed
restart_curve_keep_start(s, accelerating) ==
    IF s.accelerating # accelerating
    THEN [s EXCEPT !.accelerating = accelerating, !.t = 0]
    ELSE s

restart_curve(s, accelerating) ==
    IF s.accelerating # accelerating
    THEN [s EXCEPT !.accelerating = accelerating, !.t = 0, !.start_speed = s.speed]
    ELSE s

-----------------------------------------------------------------------------
(* Input *)

Keys == {"KeyW", "KeyS", "KeyD", "KeyA"}

\* the sets of at most n keys
Held(n) == {k \in SUBSET Keys : Cardinality(k) <= n}

KeySets == Held(MaxKeysHeld)

\* Vec2::normalize of each raw input vector and of each direction ever stored
NormalizeTable ==
    LET raws == {<<x, y>> : x \in {-VOne, 0, VOne}, y \in {-VOne, 0, VOne}}
        units == {normalize(r) : r \in raws \ {ZERO}}
    IN  [v \in raws \cup units \cup {Y} |-> normalize_or_zero(v)]

\* read_input_dir returning the raw vector, not normalized
read_input_dir_raw(keys) ==
    << (IF "KeyD" \in keys THEN VOne ELSE 0) - (IF "KeyA" \in keys THEN VOne ELSE 0),
       (IF "KeyW" \in keys THEN VOne ELSE 0) - (IF "KeyS" \in keys THEN VOne ELSE 0) >>

\* read_input_dir with W and D overriding S and A instead of cancelling them
read_input_dir_no_cancel(keys) ==
    LET raw == << IF "KeyD" \in keys THEN VOne
                  ELSE IF "KeyA" \in keys THEN -VOne ELSE 0,
                  IF "KeyW" \in keys THEN VOne
                  ELSE IF "KeyS" \in keys THEN -VOne ELSE 0 >>
    IN  IF length_squared(raw) > 0 THEN NormalizeTable[raw] ELSE ZERO

read_input_dir(keys) ==
    LET raw == << (IF "KeyD" \in keys THEN VOne ELSE 0)
                    - (IF "KeyA" \in keys THEN VOne ELSE 0),
                  (IF "KeyW" \in keys THEN VOne ELSE 0)
                    - (IF "KeyS" \in keys THEN VOne ELSE 0) >>
    IN  IF length_squared(raw) > 0 THEN NormalizeTable[raw] ELSE ZERO

Join(a, b) == IF a = "" THEN b ELSE IF b = "" THEN a ELSE a \o " " \o b

direction_string(d) ==
    IF d = ZERO THEN "Idle"
    ELSE Join(IF d[2] > 0 THEN "Forward" ELSE IF d[2] < 0 THEN "Backward" ELSE "",
              IF d[1] > 0 THEN "Right" ELSE IF d[1] < 0 THEN "Left" ELSE "")

-----------------------------------------------------------------------------
(* MovementState and the per-tick update *)

default ==
    [ pressed |-> "", dir |-> Y, velocity |-> ZERO, speed |-> 0,
      hard_turn_active |-> FALSE, hard_turn_timer |-> 0, pending_dir |-> ZERO,
      accelerating |-> FALSE, t |-> 0, start_speed |-> 0,
      is_falling |-> FALSE, fall_vel_y |-> 0 ]

\* falling_mode with the bleed not floored at 0 and the snap taken on magnitude
falling_mode_no_floor(s, dt) ==
    LET max_fall_speed == Mul(FallSpeedFactor, max_speed)
        decayed == s.speed - Mul(fall_decel, dt)
        speed == IF Abs(decayed) <= stop_epsilon THEN 0 ELSE decayed
        fallen == s.fall_vel_y + Mul(gravity, dt)
    IN  [s EXCEPT !.pressed = "Falling",
                  !.speed = speed,
                  !.velocity = IF speed = 0 THEN ZERO
                               ELSE VScale(NormalizeTable[s.dir], speed),
                  !.fall_vel_y = IF fallen < max_fall_speed THEN max_fall_speed
                                                            ELSE fallen,
                  !.accelerating = FALSE, !.t = 0, !.start_speed = speed,
                  !.hard_turn_active = FALSE, !.hard_turn_timer = 0,
                  !.pending_dir = ZERO]

\* falling_mode with the fall velocity not clamped at the terminal value
falling_mode_no_terminal(s, dt) ==
    LET decayed == Max(s.speed - Mul(fall_decel, dt), 0)
        speed == IF decayed <= stop_epsilon THEN 0 ELSE decayed
    IN  [s EXCEPT !.pressed = "Falling",
                  !.speed = speed,
                  !.velocity = IF speed = 0 THEN ZERO
                               ELSE VScale(NormalizeTable[s.dir], speed),
                  !.fall_vel_y = s.fall_vel_y + Mul(gravity, dt),
                  !.accelerating = FALSE, !.t = 0, !.start_speed = speed,
                  !.hard_turn_active = FALSE, !.hard_turn_timer = 0,
                  !.pending_dir = ZERO]

\* falling_mode with the snap to 0 at stop_epsilon left out
falling_mode_no_snap(s, dt) ==
    LET max_fall_speed == Mul(FallSpeedFactor, max_speed)
        speed == Max(s.speed - Mul(fall_decel, dt), 0)
        fallen == s.fall_vel_y + Mul(gravity, dt)
    IN  [s EXCEPT !.pressed = "Falling",
                  !.speed = speed,
                  !.velocity = VScale(NormalizeTable[s.dir], speed),
                  !.fall_vel_y = IF fallen < max_fall_speed THEN max_fall_speed
                                                            ELSE fallen,
                  !.accelerating = FALSE, !.t = 0, !.start_speed = speed,
                  !.hard_turn_active = FALSE, !.hard_turn_timer = 0,
                  !.pending_dir = ZERO]

\* if st.is_falling { ... return; }
falling_mode(s, dt) ==
    LET max_fall_speed == Mul(FallSpeedFactor, max_speed)
        decayed == Max(s.speed - Mul(fall_decel, dt), 0)
        speed == IF decayed <= stop_epsilon THEN 0 ELSE decayed
        velocity == IF decayed <= stop_epsilon THEN ZERO
                    ELSE VScale(NormalizeTable[s.dir], decayed)
        fallen == s.fall_vel_y + Mul(gravity, dt)
    IN  [s EXCEPT !.pressed = "Falling",
                  !.speed = speed,
                  !.velocity = velocity,
                  !.fall_vel_y = IF fallen < max_fall_speed THEN max_fall_speed
                                                            ELSE fallen,
                  !.accelerating = FALSE,
                  !.t = 0,
                  !.start_speed = speed,
                  !.hard_turn_active = FALSE,
                  !.hard_turn_timer = 0,
                  !.pending_dir = ZERO]

\* hard_turn_locked with the hold test counting the tick's dt twice
hard_turn_locked_early(s, desired_dir, has_input, dt) ==
    IF ~has_input
    THEN [s EXCEPT !.hard_turn_active = FALSE, !.hard_turn_timer = 0,
                   !.pending_dir = ZERO,
                   !.speed = 0, !.velocity = ZERO,
                   !.accelerating = FALSE, !.t = 0, !.start_speed = 0]
    ELSE LET held == [s EXCEPT !.pending_dir = desired_dir,
                               !.hard_turn_timer = s.hard_turn_timer + dt,
                               !.speed = 0, !.velocity = ZERO]
         IN  IF held.hard_turn_timer + dt >= hard_turn_hold_time
             THEN restart_curve([held EXCEPT !.hard_turn_active = FALSE,
                                             !.hard_turn_timer = 0,
                                             !.dir = held.pending_dir],
                                TRUE)
             ELSE held

\* hard_turn_locked with a release of the input not cancelling the lock
hard_turn_locked_no_cancel(s, desired_dir, has_input, dt) ==
    LET held == [s EXCEPT !.pending_dir = desired_dir,
                          !.hard_turn_timer = s.hard_turn_timer + dt,
                          !.speed = 0, !.velocity = ZERO]
    IN  IF has_input /\ held.hard_turn_timer >= hard_turn_hold_time
        THEN restart_curve([held EXCEPT !.hard_turn_active = FALSE,
                                        !.hard_turn_timer = 0,
                                        !.dir = held.pending_dir],
                           TRUE)
        ELSE held

\* hard_turn_locked with pending_dir kept as the entry of the lock set it
hard_turn_locked_first_pending(s, desired_dir, has_input, dt) ==
    IF ~has_input
    THEN [s EXCEPT !.hard_turn_active = FALSE, !.hard_turn_timer = 0,
                   !.pending_dir = ZERO,
                   !.speed = 0, !.velocity = ZERO,
                   !.accelerating = FALSE, !.t = 0, !.start_speed = 0]
    ELSE LET held == [s EXCEPT !.hard_turn_timer = s.hard_turn_timer + dt,
                               !.speed = 0, !.velocity = ZERO]
         IN  IF held.hard_turn_timer >= hard_turn_hold_time
             THEN restart_curve([held EXCEPT !.hard_turn_active = FALSE,
                                             !.hard_turn_timer = 0,
                                             !.dir = held.pending_dir],
                                TRUE)
             ELSE held

\* if st.hard_turn_active { ... return; }
hard_turn_locked(s, desired_dir, has_input, dt) ==
    IF ~has_input
    THEN [s EXCEPT !.hard_turn_active = FALSE, !.hard_turn_timer = 0,
                   !.pending_dir = ZERO,
                   !.speed = 0, !.velocity = ZERO,
                   !.accelerating = FALSE, !.t = 0, !.start_speed = 0]
    ELSE LET held == [s EXCEPT !.pending_dir = desired_dir,
                               !.hard_turn_timer = s.hard_turn_timer + dt,
                               !.speed = 0, !.velocity = ZERO]
         IN  IF held.hard_turn_timer >= hard_turn_hold_time
             THEN restart_curve([held EXCEPT !.hard_turn_active = FALSE,
                                             !.hard_turn_timer = 0,
                                             !.dir = held.pending_dir],
                                TRUE)
             ELSE held

\* hard_turn_enter with the curve state left as it was
hard_turn_enter_keep_curve(s, desired_dir) ==
    [s EXCEPT !.speed = 0, !.velocity = ZERO,
              !.hard_turn_active = TRUE, !.hard_turn_timer = 0,
              !.pending_dir = desired_dir]

\* if dot <= st.hard_turn_dot { ... return; }
hard_turn_enter(s, desired_dir) ==
    [s EXCEPT !.speed = 0, !.velocity = ZERO,
              !.accelerating = FALSE, !.t = 0, !.start_speed = 0,
              !.hard_turn_active = TRUE, !.hard_turn_timer = 0,
              !.pending_dir = desired_dir]

\* curve_speed with the acceleration curve added to start_speed
curve_speed_from_start(s) ==
    IF s.accelerating
    THEN s.start_speed + Mul(max_speed, clamp(AccelTable[Max(s.t, 0)], 0, One))
    ELSE Mul(s.start_speed, inv_square(s.t, decel_a))

\* the speed of the active curve
curve_speed(s) ==
    IF s.accelerating
    THEN Mul(max_speed, clamp(AccelTable[Max(s.t, 0)], 0, One))
    ELSE Mul(s.start_speed, inv_square(s.t, decel_a))

\* curve_update with the soft-turn factor left out
curve_update_no_soft(s, desired_dir, has_input, soft_turn, dt) ==
    LET turned == IF has_input THEN [s EXCEPT !.dir = desired_dir] ELSE s
        restarted == restart_curve(turned, has_input)
        timed == [restarted EXCEPT !.t = restarted.t + dt]
        curve == curve_speed(timed)
        speed == IF ~has_input /\ curve < stop_epsilon THEN 0 ELSE curve
    IN  [timed EXCEPT !.speed = speed,
                      !.velocity = IF speed > 0 THEN VScale(timed.dir, speed) ELSE ZERO]

\* curve_update with the stop_epsilon snap left out
curve_update_no_snap(s, desired_dir, has_input, soft_turn, dt) ==
    LET turned == IF has_input THEN [s EXCEPT !.dir = desired_dir] ELSE s
        restarted == restart_curve(turned, has_input)
        timed == [restarted EXCEPT !.t = restarted.t + dt]
        curve == curve_speed(timed)
        speed == IF soft_turn THEN Mul(curve, soft_turn_speed_factor) ELSE curve
    IN  [timed EXCEPT !.speed = speed,
                      !.velocity = IF speed > 0 THEN VScale(timed.dir, speed) ELSE ZERO]

\* curve_update with the snap landing on stop_epsilon instead of 0
curve_update_snap_to_epsilon(s, desired_dir, has_input, soft_turn, dt) ==
    LET turned == IF has_input THEN [s EXCEPT !.dir = desired_dir] ELSE s
        restarted == restart_curve(turned, has_input)
        timed == [restarted EXCEPT !.t = restarted.t + dt]
        curve == curve_speed(timed)
        softened == IF soft_turn THEN Mul(curve, soft_turn_speed_factor) ELSE curve
        speed == IF ~has_input /\ softened < stop_epsilon THEN stop_epsilon
                                                          ELSE softened
    IN  [timed EXCEPT !.speed = speed,
                      !.velocity = IF speed > 0 THEN VScale(timed.dir, speed) ELSE ZERO]

\* from `if has_input { st.dir = desired_dir; }` to the end of movement_system
curve_update(s, desired_dir, has_input, soft_turn, dt) ==
    LET turned == IF has_input THEN [s EXCEPT !.dir = desired_dir] ELSE s
        restarted == restart_curve(turned, has_input)
        timed == [restarted EXCEPT !.t = restarted.t + dt]
        curve == curve_speed(timed)
        softened == IF soft_turn THEN Mul(curve, soft_turn_speed_factor) ELSE curve
        speed == IF ~has_input /\ softened < stop_epsilon THEN 0 ELSE softened
    IN  [timed EXCEPT !.speed = speed,
                      !.velocity = IF speed > 0 THEN VScale(timed.dir, speed) ELSE ZERO]

\* grounded_mode with the turn tests made without asking for a held direction
grounded_mode_release_turns(s0, keys, dt) ==
    LET desired_dir == read_input_dir(keys)
        has_input == desired_dir # ZERO
        s == [s0 EXCEPT !.fall_vel_y = 0, !.pressed = direction_string(desired_dir)]
        moving == s.speed > stop_epsilon
        current_dir == IF moving THEN NormalizeTable[s.dir] ELSE ZERO
        dot == VDot(current_dir, desired_dir)
    IN  IF s.hard_turn_active THEN hard_turn_locked(s, desired_dir, has_input, dt)
        ELSE IF moving /\ dot <= hard_turn_dot
             THEN hard_turn_enter(s, desired_dir)
        ELSE curve_update(s, desired_dir, has_input,
                          moving /\ dot <= soft_turn_dot, dt)

\* the grounded part of movement_system
grounded_mode(s0, keys, dt) ==
    LET desired_dir == read_input_dir(keys)
        has_input == desired_dir # ZERO
        s == [s0 EXCEPT !.fall_vel_y = 0, !.pressed = direction_string(desired_dir)]
        moving == s.speed > stop_epsilon
        current_dir == IF moving THEN NormalizeTable[s.dir] ELSE ZERO
        dot == VDot(current_dir, desired_dir)
    IN  IF s.hard_turn_active THEN hard_turn_locked(s, desired_dir, has_input, dt)
        ELSE IF moving /\ has_input /\ dot <= hard_turn_dot
             THEN hard_turn_enter(s, desired_dir)
        ELSE curve_update(s, desired_dir, has_input,
                          moving /\ has_input /\ dot <= soft_turn_dot, dt)

\* tick with the lock branch tried before the falling branch
tick_lock_first(s, keys, dt) ==
    IF s.is_falling /\ ~s.hard_turn_active THEN falling_mode(s, dt)
                                            ELSE grounded_mode(s, keys, dt)

\* the MovementState after movement_system ran on s with `keys` held for `dt`
tick(s, keys, dt) ==
    IF s.is_falling THEN falling_mode(s, dt) ELSE grounded_mode(s, keys, dt)

-----------------------------------------------------------------------------
(* The FixedUpdate schedule *)

Start ==
    /\ st = default
    /\ moved = <<0, 0, 0>>
    /\ hud = [text |-> "Pressed: (none)", heartbeat |-> 0]
    /\ pc = "movement_system"
    /\ lag = <<0, 0>>
    /\ frame_ticks = 0
    /\ h_keys = {}
    /\ h_dt = 0
    /\ h_case = {}
    /\ h_read = <<>>
    /\ h_fall_n = 0
    /\ h_fall_dt = 0
    /\ h_turn = "none"
    /\ h_lock_dt = 0
    /\ h_cancel = FALSE

\* max_t caps the curve time of the acceleration, max_coast_t that of the
\* deceleration, max_ticks the runs of FixedUpdate in one frame
Init ==
    Start /\ clock = [dts |-> Dts, max_keys |-> MaxKeysHeld,
                      max_t |-> MaxT, max_coast_t |-> MaxT,
                      max_ticks |-> 1]

InitFine ==
    Start /\ clock = [dts |-> FineDts, max_keys |-> MaxKeysHeld,
                      max_t |-> MaxFineT, max_coast_t |-> MaxFineT,
                      max_ticks |-> 1]

\* every subset of the four keys, at the fixed step
InitKeys ==
    Start /\ clock = [dts |-> FixedDts, max_keys |-> Cardinality(Keys),
                      max_t |-> MaxT, max_coast_t |-> MaxT,
                      max_ticks |-> 1]

\* at most one key, at the fixed step, the deceleration let run to its stop
InitFixed ==
    Start /\ clock = [dts |-> FixedDts, max_keys |-> 1,
                      max_t |-> MaxT, max_coast_t |-> MaxCoastT,
                      max_ticks |-> 1]

\* at most one key, at the fixed step
InitFrame ==
    Start /\ clock = [dts |-> FixedDts, max_keys |-> 1,
                      max_t |-> MaxFrameT, max_coast_t |-> MaxFrameT,
                      max_ticks |-> MaxTicksPerFrame]

\* the eight directions, at a coarse fixed step, the acceleration let run up
\* to max_speed
InitCeiling ==
    Start /\ clock = [dts |-> CoarseDts, max_keys |-> MaxKeysHeld,
                      max_t |-> MaxAccelT, max_coast_t |-> MaxT,
                      max_ticks |-> 1]

\* the turn a tick of s with `desired` held makes when s is grounded and
\* unlocked: "hard", "soft" or "none", by the dot of the facing with `desired`
TurnKind(s, desired) ==
    LET dot == VDot(NormalizeTable[s.dir], desired)
    IN  IF s.is_falling \/ s.hard_turn_active \/ desired = ZERO
           \/ s.speed <= stop_epsilon THEN "none"
        ELSE IF dot <= hard_turn_dot THEN "hard"
        ELSE IF dot <= soft_turn_dot THEN "soft"
        ELSE "none"

\* what a tick starts from: the state s before it and the direction held
CaseTags(s, desired) ==
    LET kind == TurnKind(s, desired)
    IN  (IF s.is_falling THEN {"falling"} ELSE {"grounded"})
        \cup (IF s.hard_turn_active THEN {"locked"} ELSE {})
        \cup (IF desired = ZERO THEN {"no_input"} ELSE {})
        \cup (IF s.speed < stop_epsilon THEN {"slow"} ELSE {})
        \cup (IF s.speed > 0 THEN {"nonzero"} ELSE {})
        \cup (IF s.accelerating THEN {"accelerating"} ELSE {})
        \cup (IF kind = "hard" THEN {"hard"} ELSE {})
        \cup (IF kind = "soft" THEN {"soft"} ELSE {})
        \cup (IF s.hard_turn_active /\ desired \notin {ZERO, s.pending_dir}
              THEN {"repointed"} ELSE {})
        \cup (IF "soft" \in h_case /\ ~s.is_falling /\ desired = s.dir
              THEN {"after_soft"} ELSE {})

\* the phase of the hard turn after a tick of st with `desired` held for dt
\* that produced `next`
TurnPhase(desired, dt, next) ==
    IF st.is_falling \/ desired = ZERO THEN "none"
    ELSE IF TurnKind(st, desired) = "hard" THEN "hold"
    ELSE IF h_turn = "hold"
         THEN IF h_lock_dt + dt >= hard_turn_hold_time THEN "released" ELSE "hold"
    ELSE IF h_turn = "released"
         THEN IF next.speed = 0 THEN "released" ELSE "ramp"
    ELSE "none"

\* one run of movement_system, with `keys` held and `dt` elapsed
movement_system(keys, dt) ==
    /\ pc = "movement_system"
    /\ LET next == tick(st, keys, dt)
           desired == read_input_dir(keys)
       IN  /\ next.t <= (IF next.accelerating THEN clock.max_t
                                              ELSE clock.max_coast_t)
           /\ st' = next
           /\ h_case' = CaseTags(st, desired)
           /\ h_turn' = TurnPhase(desired, dt, next)
           /\ h_lock_dt' = IF h_turn = "hold" /\ h_turn' = "hold"
                              /\ TurnKind(st, desired) # "hard"
                           THEN h_lock_dt + dt ELSE 0
           /\ h_cancel' = /\ desired = ZERO
                          /\ \/ h_cancel
                             \/ ~st.is_falling /\ st.hard_turn_active
    /\ pc' = "apply_player_motion"
    /\ frame_ticks' = frame_ticks + 1
    /\ UNCHANGED <<moved, hud, clock, lag>>
    /\ h_keys' = keys
    /\ h_dt' = dt
    /\ h_read' = <<st.is_falling>>
    /\ h_fall_n' = IF st.is_falling THEN h_fall_n + 1 ELSE 0
    /\ h_fall_dt' = IF ~st.is_falling THEN 0
                    ELSE IF h_fall_n = 0 \/ h_fall_dt = dt THEN dt ELSE -1

\* the position integrator, with the dt of the same run of FixedUpdate: the
\* translation it adds to Transform along x, y and z (the position itself is
\* not kept, the footprint test of the oracle being a free choice; kept is
\* how far Transform has moved away from GlobalTransform)
apply_player_motion ==
    /\ pc = "apply_player_motion"
    /\ moved' = << Mul(st.velocity[1], h_dt),
                   IF st.is_falling THEN Mul(st.fall_vel_y, h_dt) ELSE 0,
                   Mul(st.velocity[2], h_dt) >>
    /\ lag' = <<lag[1] + moved'[1], lag[2] + moved'[3]>>
    /\ h_read' = Append(h_read, st.is_falling)
    /\ pc' = "update_grounded_flag_and_snap"
    /\ UNCHANGED <<st, hud, clock, frame_ticks, h_keys, h_dt, h_case>>
    /\ UNCHANGED <<h_fall_n, h_fall_dt, h_turn, h_lock_dt, h_cancel>>

\* what follows a run of FixedUpdate: another run of it in the same frame,
\* or the rest of the frame
AfterFixedUpdate ==
    IF frame_ticks < clock.max_ticks THEN {"movement_system", "PostUpdate"}
                                     ELSE {"PostUpdate"}

\* the grounding oracle ordered before the integrator instead of after it
update_grounded_flag_before_motion ==
    /\ pc \in {"apply_player_motion", "update_grounded_flag_and_snap"}
    /\ \E grounded \in BOOLEAN :
          /\ ~grounded => h_fall_n < MaxFallTicks
          /\ st' = [st EXCEPT !.is_falling = ~grounded]
    /\ IF pc = "apply_player_motion"
       THEN UNCHANGED <<pc, moved, h_keys, h_dt, h_case, h_read>>
       ELSE /\ pc' \in AfterFixedUpdate
            /\ moved' = <<0, 0, 0>>
            /\ h_keys' = {}
            /\ h_dt' = 0
            /\ h_case' = h_case \cap {"soft"}
            /\ h_read' = <<>>
    /\ UNCHANGED <<hud, clock, lag, frame_ticks>>
    /\ UNCHANGED <<h_fall_n, h_fall_dt, h_turn, h_lock_dt, h_cancel>>

\* the grounding oracle: the footprint test, made where GlobalTransform has
\* the player, decides is_falling; the snap writes only the height
update_grounded_flag_and_snap ==
    /\ pc = "update_grounded_flag_and_snap"
    /\ \E grounded \in BOOLEAN :
          /\ ~grounded => h_fall_n < MaxFallTicks
          /\ st' = [st EXCEPT !.is_falling = ~grounded]
    /\ pc' \in AfterFixedUpdate
    /\ moved' = <<0, 0, 0>>
    /\ UNCHANGED <<hud, clock, lag, frame_ticks>>
    /\ h_keys' = {}
    /\ h_dt' = 0
    /\ h_case' = h_case \cap {"soft"}
    /\ h_read' = <<>>
    /\ UNCHANGED <<h_fall_n, h_fall_dt, h_turn, h_lock_dt, h_cancel>>

\* the HUD text, in Update: between two runs of the FixedUpdate chain.  (The
\* is_changed() test only skips a redraw of the same text.)
interface_system ==
    /\ pc = "movement_system"
    /\ hud' = [hud EXCEPT !.text = IF st.pressed = "" THEN "Pressed: (none)"
                                   ELSE "Pressed: " \o st.pressed]
    /\ UNCHANGED <<st, moved, clock, pc, h_keys, h_dt, h_case, h_read>>
    /\ UNCHANGED <<lag, frame_ticks>>
    /\ UNCHANGED <<h_fall_n, h_fall_dt, h_turn, h_lock_dt, h_cancel>>

\* the heartbeat value, in Update
update_heartbeat ==
    /\ pc = "movement_system"
    /\ hud' = [hud EXCEPT !.heartbeat = length(st.velocity)]
    /\ UNCHANGED <<st, moved, clock, pc, h_keys, h_dt, h_case, h_read>>
    /\ UNCHANGED <<lag, frame_ticks>>
    /\ UNCHANGED <<h_fall_n, h_fall_dt, h_turn, h_lock_dt, h_cancel>>

\* transform propagation, in PostUpdate: GlobalTransform takes the value of
\* Transform, and the frame ends
propagate_transforms ==
    /\ pc = "PostUpdate"
    /\ lag' = <<0, 0>>
    /\ frame_ticks' = 0
    /\ pc' = "movement_system"
    /\ UNCHANGED <<st, moved, hud, clock, h_keys, h_dt, h_case, h_read>>
    /\ UNCHANGED <<h_fall_n, h_fall_dt, h_turn, h_lock_dt, h_cancel>>

Next ==
    \/ \E keys \in Held(clock.max_keys), dt \in clock.dts : movement_system(keys, dt)
    \/ apply_player_motion
    \/ update_grounded_flag_and_snap
    \/ propagate_transforms

\* the FixedUpdate chain and the systems of Update
NextFrame ==
    \/ Next
    \/ interface_system
    \/ update_heartbeat

Spec == Init /\ [][Next]_vars

SpecFine == InitFine /\ [][Next]_vars

SpecKeys == InitKeys /\ [][Next]_vars

\* the chain goes on to its next system
Chain ==
    pc' \in (IF pc = "movement_system" THEN {"apply_player_motion"}
             ELSE IF pc = "apply_player_motion"
                  THEN {"update_grounded_flag_and_snap"}
             ELSE IF pc = "update_grounded_flag_and_snap" THEN AfterFixedUpdate
             ELSE {"movement_system"})

\* FixedUpdate keeps running: the chain always takes its next step
SpecFixed == InitFixed /\ [][Next]_vars /\ WF_pc(Chain)

SpecFrame == InitFrame /\ [][NextFrame]_vars

SpecCeiling == InitCeiling /\ [][Next]_vars

\* the controller and the integrator of a tick have run
Ticked == pc = "update_grounded_flag_and_snap"

TypeOK ==
    /\ st.t \in 0..MaxCoastT
    /\ pc \in {"movement_system", "apply_player_motion",
               "update_grounded_flag_and_snap", "PostUpdate"}
    /\ frame_ticks \in 0..MaxTicksPerFrame

-----------------------------------------------------------------------------
(* Properties *)

\* the direction held during the tick that just ran
Desired == read_input_dir(h_keys)

\* the terminal fall velocity, -3 * max_speed
Terminal == Mul(FallSpeedFactor, max_speed)

\* C1 (continuity): on every tick where the accelerating flag flips, the newly
\* active curve evaluated at t = 0 equals start_speed, so that the speed
\* output does not jump across the regime change.
C1_Continuity ==
    [][(pc = "movement_system" /\ st'.accelerating # st.accelerating)
         => curve_speed([st' EXCEPT !.t = 0]) = st'.start_speed]_vars

\* C2 (non-negativity): after every tick, in every branch, speed >= 0.
C2_NonNegative == st.speed >= 0

\* a falling tick took a positive speed down to the floor
C2_Witness ==
    Ticked /\ {"falling", "nonzero"} \subseteq h_case /\ h_dt > 0 /\ st.speed = 0

\* C3 (hard-turn hold): from the tick that detects a reversal, while input
\* stays held on the ground, speed and velocity are 0 until the elapsed time
\* of the locked ticks reaches hard_turn_hold_time, they are still 0 on the
\* tick that reaches it, and the first non-zero speed afterwards is the
\* acceleration curve started from 0, its curve time that tick's dt.
C3_HardTurnHold ==
    /\ h_turn \in {"hold", "released"} => st.speed = 0 /\ st.velocity = ZERO
    /\ h_turn = "hold" => h_lock_dt < hard_turn_hold_time
    /\ (Ticked /\ h_turn = "ramp") =>
          /\ st.speed > 0
          /\ st.accelerating
          /\ st.t = h_dt
          /\ st.speed = Mul(max_speed, clamp(accel_exp(h_dt, accel_k), 0, One))

\* the first non-zero speed after a hold that took more than one locked tick
C3_Witness == Ticked /\ h_turn = "ramp" /\ h_dt < hard_turn_hold_time

\* C4 (lock cancel on release): a grounded tick with the lock active and no
\* net direction held leaves the lock inactive and speed and velocity 0, and
\* they stay 0 on every following tick, grounded or falling, for as long as
\* no net direction is held.
C4_LockCancel ==
    h_cancel => ~st.hard_turn_active /\ st.speed = 0 /\ st.velocity = ZERO

\* a tick after the one that cancelled the lock, still with no direction held
C4_Witness == Ticked /\ h_cancel /\ "locked" \notin h_case /\ h_dt > 0

\* C5 (soft-turn attenuation): a soft-turn tick outputs the active curve's
\* value times soft_turn_speed_factor, the curve time having advanced by dt;
\* the next tick with the same direction held outputs the unmodified curve
\* value, the curve time again advanced by dt and not reset.
C5_SoftTurn ==
    [][pc = "movement_system" =>
         LET desired == read_input_dir(h_keys')
             advanced == (IF st.accelerating THEN st.t ELSE 0) + h_dt'
         IN  /\ TurnKind(st, desired) = "soft" =>
                   /\ st'.accelerating
                   /\ st'.t = advanced
                   /\ st'.speed = Mul(Mul(max_speed,
                                          clamp(accel_exp(advanced, accel_k), 0, One)),
                                      soft_turn_speed_factor)
             /\ ("soft" \in h_case /\ ~st.is_falling /\ desired = st.dir) =>
                   /\ st'.t = st.t + h_dt'
                   /\ st'.speed = Mul(max_speed,
                                      clamp(accel_exp(st.t + h_dt', accel_k), 0, One))
    ]_vars

\* the tick after a soft turn, same direction held, time elapsed
C5_Witness == Ticked /\ "after_soft" \in h_case /\ h_dt > 0 /\ st.speed > 0

\* C6 (fall velocity): after a run of n falling ticks of the same dt that
\* started from fall_vel_y = 0, fall_vel_y = max(gravity * n * dt, -3 *
\* max_speed); a grounded tick resets it to 0.
C6_FallVelocity ==
    /\ h_fall_dt # -1 =>
          st.fall_vel_y = Max(Mul(gravity, h_fall_n * h_fall_dt), Terminal)
    /\ h_fall_n = 0 => st.fall_vel_y = 0

\* a run of falling ticks of one dt that went past the terminal velocity
C6_Witness ==
    /\ h_fall_dt > 0
    /\ Mul(gravity, h_fall_n * h_fall_dt) < Terminal
    /\ st.fall_vel_y = Terminal

\* C7 (idle stop): a tick from a state with speed < stop_epsilon with no net
\* direction held, grounded or falling, locked or not, produces speed 0 and
\* velocity (0,0).
C7_IdleStop ==
    (Ticked /\ {"slow", "no_input"} \subseteq h_case)
        => st.speed = 0 /\ st.velocity = ZERO

\* a grounded tick that took a non-zero speed below stop_epsilon to 0
C7_Witness ==
    Ticked /\ {"slow", "no_input", "nonzero", "grounded"} \subseteq h_case

\* the eight normalized key directions
EightDirs ==
    {<<x, 0>> : x \in {-VOne, VOne}} \cup {<<0, y>> : y \in {-VOne, VOne}}
    \cup {<<x, y>> : x \in {-11585, 11585}, y \in {-11585, 11585}}

\* C8 (unit facing): in every reachable state direction is one of the eight
\* normalized key directions (the default facing is one of them), has unit
\* length and is not the zero vector.
C8_UnitFacing ==
    /\ st.dir \in EightDirs
    /\ st.dir # ZERO
    /\ Abs(length_squared(st.dir) - VOne) <= 1

\* a diagonal direction adopted from pending_dir at the release of the lock
C8_Witness ==
    /\ Ticked /\ h_turn = "released"
    /\ st.dir = st.pending_dir
    /\ st.dir[1] # 0 /\ st.dir[2] # 0

\* C9 (derived velocity): after every tick velocity = direction * speed when
\* speed > 0 and (0,0) when speed = 0.
C9_DerivedVelocity ==
    st.velocity = IF st.speed > 0 THEN VScale(st.dir, st.speed) ELSE ZERO

\* C10 (falling pre-empts everything): after a tick with is_falling the lock
\* is inactive with timer 0 and no pending direction, the curve state is
\* decelerating with t = 0 and start_speed = the resulting speed, direction is
\* unchanged, and the resulting state is the same for every held-key set.
C10_FallingPreempts ==
    [][(pc = "movement_system" /\ st.is_falling) =>
         /\ ~st'.hard_turn_active
         /\ st'.hard_turn_timer = 0
         /\ st'.pending_dir = ZERO
         /\ ~st'.accelerating
         /\ st'.t = 0
         /\ st'.start_speed = st'.speed
         /\ st'.dir = st.dir
         /\ \A keys \in KeySets : tick(st, keys, h_dt') = st'
    ]_vars

\* a falling tick from a locked state with a direction held
C10_Witness ==
    Ticked /\ {"falling", "locked"} \subseteq h_case /\ Desired # ZERO

\* C11 (falling bleed): a tick with is_falling and dt >= 0 makes the speed
\* max(speed - fall_decel * dt, 0), and exactly 0 with velocity (0,0) when
\* that is <= stop_epsilon; the speed of a falling tick never increases, and
\* it is this value whatever the curve state is.
C11_FallingBleed ==
    [][(pc = "movement_system" /\ st.is_falling) =>
         LET bled == Max(st.speed - Mul(fall_decel, h_dt'), 0)
         IN  /\ st'.speed = IF bled <= stop_epsilon THEN 0 ELSE bled
             /\ bled <= stop_epsilon => st'.velocity = ZERO
             /\ st'.speed <= st.speed
             /\ \A regime \in BOOLEAN :
                   falling_mode([st EXCEPT !.accelerating = regime,
                                           !.t = st.t + 1,
                                           !.start_speed = 0], h_dt').speed
                     = st'.speed
    ]_vars

\* a falling tick that bled a speed without stopping it
C11_Witness ==
    Ticked /\ {"falling", "nonzero"} \subseteq h_case /\ h_dt > 0
           /\ st.speed > stop_epsilon

\* C12 (one-tick grounding delay): every fixed tick runs movement_system,
\* then apply_player_motion, then update_grounded_flag_and_snap; is_falling
\* changes only in the oracle's step, the last of the tick, so that the value
\* it writes is first read by the next tick's controller, and the controller
\* and the integrator of one tick read the same is_falling.
C12_GroundingDelay ==
    [][/\ pc = "movement_system" =>
             /\ pc' = "apply_player_motion"
             /\ h_read = <<>> /\ h_read' = <<st.is_falling>>
       /\ pc = "apply_player_motion" =>
             /\ pc' = "update_grounded_flag_and_snap"
             /\ h_read' = <<h_read[1], h_read[1]>>
             /\ moved'[2] # 0 => h_read[1]
       /\ pc = "update_grounded_flag_and_snap" =>
             /\ pc' \in {"movement_system", "PostUpdate"}
             /\ h_read' = <<>>
       /\ pc = "PostUpdate" =>
             /\ pc' = "movement_system"
             /\ h_read' = <<>>
       /\ st'.is_falling # st.is_falling =>
             pc = "update_grounded_flag_and_snap"
    ]_vars

\* the integrator of the first falling tick: the controller of this tick read
\* the is_falling that the oracle of the tick before wrote
C12_Witness ==
    /\ pc = "update_grounded_flag_and_snap"
    /\ h_fall_n = 1
    /\ h_read = <<TRUE, TRUE>>
    /\ moved[2] < 0

\* C13 (exclusive ownership): movement_system is the only system that writes a
\* field of MovementState; every step of the integrator, of the grounding
\* oracle and of the HUD systems leaves every field of it unchanged.
C13_ExclusiveOwnership ==
    [][st' # st => (pc = "movement_system" /\ pc' = "apply_player_motion")]_vars

\* elapsed times (ms) below 0
NegDts == {-50, -100}

Octant(d) ==
    IF d[2] = 0 THEN (IF d[1] > 0 THEN 0 ELSE 4)
    ELSE IF d[1] = 0 THEN (IF d[2] > 0 THEN 2 ELSE 6)
    ELSE IF d[2] > 0 THEN (IF d[1] > 0 THEN 1 ELSE 3)
                     ELSE (IF d[1] > 0 THEN 7 ELSE 5)

\* the angle between two of the eight directions, in steps of 45 degrees
AngleSteps(a, b) ==
    LET k == Abs(Octant(a) - Octant(b))
    IN  IF k > 4 THEN 8 - k ELSE k

\* C15 (turn classification): on a grounded, unlocked tick with speed >
\* stop_epsilon and one of the eight directions held, a held direction 45 or
\* 90 degrees from the facing is a soft turn (the curve's speed times
\* soft_turn_speed_factor, no lock), one 135 or 180 degrees from it zeroes
\* speed and velocity and enters the lock with pending_dir = the held
\* direction, and the facing itself held has no penalty.
C15_TurnClassification ==
    [][(/\ pc = "movement_system"
        /\ ~st.is_falling /\ ~st.hard_turn_active
        /\ st.speed > stop_epsilon
        /\ read_input_dir(h_keys') # ZERO) =>
         LET desired == read_input_dir(h_keys')
             steps == AngleSteps(st.dir, desired)
         IN  /\ steps \in {1, 2} =>
                   /\ ~st'.hard_turn_active
                   /\ st'.speed = Mul(curve_speed(st'), soft_turn_speed_factor)
             /\ steps >= 3 =>
                   /\ st'.speed = 0 /\ st'.velocity = ZERO
                   /\ st'.hard_turn_active
                   /\ st'.pending_dir = desired
             /\ steps = 0 =>
                   /\ ~st'.hard_turn_active
                   /\ st'.speed = curve_speed(st')
    ]_vars

\* what the held keys add up to on an axis: -1, 0 or 1
NetAxis(keys, plus, minus) ==
    (IF plus \in keys THEN 1 ELSE 0) - (IF minus \in keys THEN 1 ELSE 0)

Sign(a) == IF a > 0 THEN 1 ELSE IF a < 0 THEN -1 ELSE 0

\* C16 (input direction reader): for each of the 16 subsets of the four keys
\* the direction read is a function of the held set alone (the tick shows the
\* same reading whatever the state); opposite keys cancel on their axis; it
\* is the zero vector exactly when both axes cancel or no key is held, and
\* otherwise has unit length and, on each axis, the sign of the net key.
C16_InputDirection ==
    Ticked =>
        LET d == Desired
            nx == NetAxis(h_keys, "KeyD", "KeyA")
            ny == NetAxis(h_keys, "KeyW", "KeyS")
        IN  /\ d = ZERO <=> (nx = 0 /\ ny = 0)
            /\ d # ZERO => Abs(length_squared(d) - VOne) <= 1
            /\ Sign(d[1]) = nx
            /\ Sign(d[2]) = ny
            /\ "grounded" \in h_case =>
                  st.pressed = direction_string(<<nx, ny>>)
            /\ ("grounded" \in h_case /\ d # ZERO /\ ~st.hard_turn_active) =>
                  st.dir = d

\* a grounded tick with three keys held, two of them cancelling
C16_Witness ==
    /\ Ticked /\ "grounded" \in h_case
    /\ h_keys = {"KeyW", "KeyS", "KeyD"}
    /\ st.pressed = "Right"
    /\ st.dir = <<VOne, 0>>

\* C17 (lock release): a grounded tick with the lock active and a direction
\* held adds dt to the timer; while the sum is below hard_turn_hold_time the
\* lock stays and dir is not modified; on the first tick where it is reached
\* the lock is released with dir = the direction held on that tick, speed 0,
\* the regime accelerating with curve time 0 and start_speed 0, and the timer
\* 0.  With every dt positive an active lock is eventually released.
C17_LockRelease ==
    /\ [][(/\ pc = "movement_system"
            /\ ~st.is_falling /\ st.hard_turn_active
            /\ read_input_dir(h_keys') # ZERO) =>
             LET desired == read_input_dir(h_keys')
                 timer == st.hard_turn_timer + h_dt'
             IN  IF timer >= hard_turn_hold_time
                 THEN /\ ~st'.hard_turn_active
                      /\ st'.hard_turn_timer = 0
                      /\ st'.dir = desired
                      /\ st'.speed = 0
                      /\ st'.accelerating
                      /\ st'.t = 0
                      /\ st'.start_speed = 0
                 ELSE /\ st'.hard_turn_active
                      /\ st'.hard_turn_timer = timer
                      /\ st'.dir = st.dir
                      /\ st'.pending_dir = desired
       ]_vars
    /\ (st.hard_turn_active ~> ~st.hard_turn_active)

\* a release after more than one locked tick, to a direction other than the
\* pending one of the tick before
C17_Witness ==
    /\ Ticked /\ {"grounded", "locked", "repointed"} \subseteq h_case
    /\ h_dt < hard_turn_hold_time
    /\ ~st.hard_turn_active
    /\ st.dir = Desired

\* C18 (lock invariant): whenever hard_turn_active is true after a step, speed
\* = 0, velocity = (0,0), accelerating = false, curve time = 0, start_speed =
\* 0 and pending_dir is not zero; and hard_turn_active becomes true only in a
\* tick of the controller that started grounded.
C18_LockInvariant ==
    [][/\ st'.hard_turn_active =>
             /\ st'.speed = 0
             /\ st'.velocity = ZERO
             /\ ~st'.accelerating
             /\ st'.t = 0
             /\ st'.start_speed = 0
             /\ st'.pending_dir # ZERO
       /\ (~st.hard_turn_active /\ st'.hard_turn_active) =>
             (pc = "movement_system" /\ ~st.is_falling)
    ]_vars

\* a locked tick with time elapsed that kept the lock
C18_Witness ==
    Ticked /\ "locked" \in h_case /\ h_dt > 0 /\ st.hard_turn_active

\* C19 (curve bookkeeping): after a grounded, unlocked tick that does not
\* enter the lock the regime is accelerating iff a net direction is held; if
\* the regime changed, the curve time is the tick's dt and start_speed the
\* speed before the tick; if not, the curve time has grown by dt and
\* start_speed is unchanged.
C19_CurveBookkeeping ==
    [][(/\ pc = "movement_system"
        /\ ~st.is_falling /\ ~st.hard_turn_active
        /\ ~st'.hard_turn_active) =>
         /\ st'.accelerating = (read_input_dir(h_keys') # ZERO)
         /\ IF st'.accelerating # st.accelerating
            THEN st'.t = h_dt' /\ st'.start_speed = st.speed
            ELSE st'.t = st.t + h_dt' /\ st'.start_speed = st.start_speed
    ]_vars

\* the release of the keys at a speed: the regime changes to decelerating
C19_Witness ==
    /\ Ticked
    /\ {"grounded", "accelerating", "no_input", "nonzero"} \subseteq h_case
    /\ h_dt > 0
    /\ ~st.accelerating /\ st.t = h_dt /\ st.start_speed > 0

\* C20 (eventual stop): with no net direction held on every tick from some
\* point on and every dt above a fixed positive amount, speed eventually is
\* exactly 0, grounded or falling in any mix; a tick with no direction held
\* keeps a speed of 0 at 0 with velocity (0,0), never raises the speed and
\* never leaves a speed that is not 0 and below stop_epsilon; and every
\* deceleration that ran for MaxCoastT has stopped.
C20_EventualStop ==
    /\ [][(pc = "movement_system" /\ read_input_dir(h_keys') = ZERO) =>
             /\ st.speed = 0 => st'.speed = 0
             /\ st'.speed = 0 => st'.velocity = ZERO
             /\ st'.speed <= st.speed
             /\ st'.speed = 0 \/ st'.speed >= stop_epsilon
       ]_vars
    /\ []((~st.accelerating /\ st.t >= MaxCoastT) => st.speed = 0)
    /\ []<>(Desired # ZERO \/ st.speed = 0)

\* the grounded tick at which a deceleration of more than a second stops
C20_Witness ==
    /\ Ticked /\ {"grounded", "no_input", "nonzero"} \subseteq h_case
    /\ st.t > One
    /\ st.start_speed > stop_epsilon
    /\ st.speed = 0

\* C21 (oracle reads the current position): on every tick the position at
\* which update_grounded_flag_and_snap tests for ground is the position the
\* integrator of the same tick left in Transform: when the oracle runs,
\* GlobalTransform, which it reads, has no lag behind Transform.
C21_OracleReadsCurrent ==
    pc = "update_grounded_flag_and_snap" => lag = <<0, 0>>

\* C22 (releasing input is never a turn): a grounded, unlocked tick with no
\* net direction held, whatever the speed and the facing it starts from, does
\* not enter the hard-turn lock and keeps the facing; it runs the deceleration
\* curve (restarted from the speed before the tick if that was accelerating)
\* and its speed is exactly start_speed / (1 + decel_a * t)^2, without the
\* soft-turn factor, or 0 where that value is below stop_epsilon.
C22_ReleaseIsNoTurn ==
    [][(/\ pc = "movement_system"
        /\ ~st.is_falling /\ ~st.hard_turn_active
        /\ read_input_dir(h_keys') = ZERO)
       => LET curve == Mul(st'.start_speed, inv_square(st'.t, decel_a))
          IN  /\ ~st'.hard_turn_active
              /\ st'.dir = st.dir
              /\ ~st'.accelerating
              /\ st'.t = (IF st.accelerating THEN 0 ELSE st.t) + h_dt'
              /\ st'.start_speed = (IF st.accelerating THEN st.speed
                                                       ELSE st.start_speed)
              /\ st'.speed = (IF curve < stop_epsilon THEN 0 ELSE curve)
              /\ st'.velocity = (IF st'.speed > 0
                                 THEN VScale(st.dir, st'.speed) ELSE ZERO)
    ]_vars

\* a tick that started moving on the ground, unlocked, with two keys held that
\* cancel, and kept a speed above stop_epsilon
C22_Witness ==
    /\ Ticked
    /\ {"grounded", "no_input", "nonzero"} \subseteq h_case
    /\ "locked" \notin h_case /\ "slow" \notin h_case
    /\ Cardinality(h_keys) = 2
    /\ h_dt > 0
    /\ st.speed > stop_epsilon

\* C23 (speed ceiling): after every tick of every sequence of inputs and
\* is_falling values, with the default tuning and dt >= 0, speed is at most
\* max_speed and so is start_speed, the speed a deceleration starts from;
\* |velocity| is at most the speed, so at most max_speed too (up to the last
\* digit: the quantised diagonal is longer than 1 by less than a step).
C23_SpeedCeiling ==
    /\ st.speed <= max_speed
    /\ st.start_speed <= max_speed
    /\ length(st.velocity) <= st.speed + 1

\* a deceleration along a diagonal that started from max_speed
C23_Witness ==
    /\ Ticked
    /\ ~st.accelerating /\ ~st.is_falling
    /\ st.start_speed = max_speed
    /\ st.t > 0
    /\ st.speed > stop_epsilon
    /\ st.dir[1] # 0 /\ st.dir[2] # 0

====
